---- MODULE Spec2Model ----
(***************************************************************************)
(* Verification model of the OCR invoice pipeline                          *)
(* (services/ocr-pipeline-python).                                         *)
(*                                                                         *)
(*   SpecLLM   - call_llm: the retrying completion client with its ledger  *)
(*               reservations and the json_validate_failed repair sub-call *)
(*   SpecLLMLive - SpecLLM with the call's steps taken whenever possible    *)
(*   SpecPipe  - extract_document / run_pipeline: admission gate, cache    *)
(*               lookup by content hash, completion call, save             *)
(*   SpecPipeLive - SpecPipe with the fairness of the gate and the runs    *)
(*   SpecNorm  - normalize_invoice_amounts applied repeatedly to a header  *)
(*   SpecParse - the amount stages of _parse_and_normalize in their order  *)
(*   SpecInvoice - normalize_invoice_amounts on headers of invoice size    *)
(*   SpecScale - harmonize_amount_scale on a header and an item sum        *)
(*   SpecItems - merge_descriptor_items applied repeatedly to an item list *)
(*   SpecStages - normalize, harmonize, normalize, recompute one by one    *)
(*   SpecRecompute - recompute_discount on a header, locked or not         *)
(*   SpecWarnings - filter_false_positive_warnings on the notes' warnings  *)
(***************************************************************************)
EXTENDS Integers, Sequences, FiniteSets, TLC

VARIABLES
    stack,          \* call_llm activations: <<top-level>> or <<top-level, repair sub-call>>
    ledger,         \* quota ledger: ids of the open (unresolved) reservations
    config,         \* credentials: "key", "stub" (no key, stub allowed), "nokey"
    MAX_CONCURRENCY,\* the configured admission limit (environment, default 1)
    semaphore,      \* free permits of _semaphore
    req,            \* extract_document requests, each with its run_pipeline position
    db,             \* persisted documents: file hash -> payload
    saves,          \* save_document calls so far, per file hash
    invoice,        \* the header's four amounts (subtotal, tax, total, discount)
    before,         \* the header as it was before the latest operation on it
    passes,         \* normalize_invoice_amounts passes applied so far
    items_sum,      \* sum of the retained items' line totals
    discount_worded,\* the document text names a discount (keyword or summary label)
    fields_ok,      \* vendor name, ISO date and items are all there
    stage,          \* "candidate", then "accepted" or "rejected"
    items,          \* the line items (merge_descriptor_items works on these)
    items_before,   \* the line items before the latest reconciliation
    warnings,       \* the warnings of the notes (filter_false_positive_warnings)
    warnings_before \* the warnings before the filter

llmVars == <<stack, ledger, config>>
pipeVars == <<MAX_CONCURRENCY, semaphore, req, db, saves>>
itemVars == <<items, items_before>>
noteVars == <<warnings, warnings_before>>
normVars == <<invoice, before, passes, items_sum, discount_worded, fields_ok, stage,
              itemVars, noteVars>>
vars == <<stack, ledger, config, MAX_CONCURRENCY, semaphore, req, db, saves,
          invoice, before, passes, items_sum, discount_worded, fields_ok, stage,
          items, items_before, warnings, warnings_before>>

(***************************************************************************)
(* call_llm  (pipeline/llm/groq_client.py)                                 *)
(***************************************************************************)

\* no warnings while a component without them is explored
NotesIdle ==
    /\ warnings = << >>
    /\ warnings_before = << >>

\* no line items while a component without them is explored
ItemsIdle ==
    /\ items = << >>
    /\ items_before = << >>

\* the amount stages are idle while another component is explored
NormIdle ==
    /\ ItemsIdle
    /\ NotesIdle
    /\ invoice = << >>
    /\ before = << >>
    /\ passes = 0
    /\ items_sum = 0
    /\ discount_worded = FALSE
    /\ fields_ok = FALSE
    /\ stage = "idle"

\* entry_id = None
NoEntry == 0

\* response: Optional[requests.Response] = None
NoResponse == [status_code |-> 0, remaining_tokens |-> "absent"]

\* the loop "for attempt in range(4)"
MaxAttempts == 4

\* statuses the server can answer with, by branch of the loop body
ServerErrorCodes == {500, 502, 503}
OtherErrorCodes == {401, 403, 404}
OtherOkCodes == {204}

\* x-ratelimit-remaining-tokens header of a 429 answer
RemainingHints == {"0", "17", "absent"}

\* content of a 200 answer / failed_generation of a 400 answer
\*   "json": parses as JSON, "text": non-empty, does not parse, "empty": ""
Contents == {"json", "text", "empty"}

\* requests.Response.__bool__ is Response.ok: false for 4xx and 5xx
Truthy(response) == response # NoResponse /\ response.status_code < 400

\* an activation that may always start a repair round-trip
NewFrameRepairing(allow_repair) ==
    [ allow_repair |-> TRUE,
      pc           |-> "start",
      attempt      |-> 0,
      entry_id     |-> NoEntry,
      commits      |-> 0,
      cancels      |-> 0,
      response     |-> NoResponse,
      last         |-> "none",
      transient_only |-> TRUE,
      sent         |-> 0,
      sleeps       |-> 0,
      repairs      |-> 0,
      nested_sent  |-> 0,
      content      |-> "none",
      from_repair  |-> FALSE,
      error        |-> "none" ]

\* a new activation of call_llm
NewFrame(allow_repair) ==
    [ allow_repair |-> allow_repair,
      pc           |-> "start",
      attempt      |-> 0,
      entry_id     |-> NoEntry,
      commits      |-> 0,      \* record_actual_tokens calls made for entry_id
      cancels      |-> 0,      \* cancel_request calls made for entry_id
      response     |-> NoResponse,
      last         |-> "none", \* how the latest attempt was answered
      transient_only |-> TRUE, \* every attempt so far: 429, 500/502/503 or timeout
      sent         |-> 0,      \* requests.post calls of this activation
      sleeps       |-> 0,      \* time.sleep calls of this activation
      repairs      |-> 0,      \* repair sub-calls started by this activation
      nested_sent  |-> 0,      \* requests.post calls of its ended sub-calls
      content      |-> "none", \* returned text when pc = "returned"
      from_repair  |-> FALSE,  \* the returned text is the repair sub-call's
      error        |-> "none" ]\* exception when pc = "raised"

Top == stack[Len(stack)]

SetTop(f) == [stack EXCEPT ![Len(stack)] = f]

Running(f) == f.pc \notin {"returned", "raised"}

\* rate_limiter.cancel_request(entry_id), guarded by "entry_id is not None"
Cancel(f) ==
    IF f.entry_id # NoEntry THEN [f EXCEPT !.cancels = @ + 1] ELSE f

\* rate_limiter.record_actual_tokens(entry_id, ...), same guard
Commit(f) ==
    IF f.entry_id # NoEntry THEN [f EXCEPT !.commits = @ + 1] ELSE f

\* ids some activation still refers to
HeldEntries == {stack[i].entry_id : i \in DOMAIN stack}

\* the ledger hands out an id it has not handed out to anyone who holds one
FreshEntry ==
    CHOOSE id \in 1..(Cardinality(ledger \cup HeldEntries) + 1) :
        id \notin ledger \cup HeldEntries

\* the ledger after the calls that took frame f to frame g: a commit or a
\* cancel closes the reservation (a repeated one finds it already closed)
LedgerAfter(f, g) ==
    IF g.commits + g.cancels > f.commits + f.cancels
    THEN ledger \ {f.entry_id}
    ELSE ledger

\* STEP 15/16, after the loop
AfterLoop(f) ==
    IF Truthy(f.response) /\ f.response.status_code = 429
    THEN IF f.response.remaining_tokens \in {"0", "absent"}
         THEN [f EXCEPT !.pc = "raised", !.error = "RuntimeError_daily_limit"]
         ELSE [f EXCEPT !.pc = "raised", !.error = "RuntimeError_rate_limit"]
    ELSE [f EXCEPT !.pc = "raised", !.error = "RuntimeError_all_retries"]

\* the loop running one attempt too many
NextAttemptOneMore(f) ==
    IF f.attempt + 1 <= MaxAttempts
    THEN [f EXCEPT !.attempt = @ + 1, !.pc = "reserve", !.entry_id = NoEntry,
                   !.commits = 0, !.cancels = 0]
    ELSE AfterLoop([f EXCEPT !.attempt = @ + 1])

\* "continue" / falling off the loop body: next iteration or loop exit
NextAttempt(f) ==
    IF f.attempt + 1 < MaxAttempts
    THEN [f EXCEPT !.attempt = @ + 1, !.pc = "reserve", !.entry_id = NoEntry,
                   !.commits = 0, !.cancels = 0]
    ELSE AfterLoop([f EXCEPT !.attempt = @ + 1])

\* time.sleep(...) is entered
Sleep(f) == [f EXCEPT !.pc = "sleep", !.sleeps = @ + 1]

\* "except requests.exceptions.Timeout" and "except Exception" (STEP 12, 13)
ExceptHandler(f, exc) ==
    IF f.attempt < 3
    THEN Sleep(Cancel(f))
    ELSE [f EXCEPT !.pc = "raised", !.error = exc]

\* STEP 1: credentials
StartCall ==
    /\ stack # << >>
    /\ Top.pc = "start"
    /\ stack' = SetTop(
         IF config = "key" THEN [Top EXCEPT !.pc = "reserve"]
         ELSE IF config = "stub"
              THEN [Top EXCEPT !.pc = "returned", !.content = "json"]
              ELSE [Top EXCEPT !.pc = "raised", !.error = "ValueError"])
    /\ UNCHANGED <<ledger, config, pipeVars, normVars>>

\* rate_limiter.check_and_wait(...) at the top of an attempt
Reserve ==
    /\ stack # << >>
    /\ Top.pc = "reserve"
    /\ ledger' = ledger \cup {FreshEntry}
    /\ stack' = SetTop([Top EXCEPT !.pc = "send",
                                   !.entry_id = FreshEntry,
                                   !.commits = 0, !.cancels = 0])
    /\ UNCHANGED <<config, pipeVars, normVars>>

\* requests.post(...) was made and is answered (or fails)
Transient == {"quota", "server_error", "timeout"}

Posted(f, status, hint, kind) ==
    [f EXCEPT !.sent = @ + 1,
              !.response = [status_code |-> status, remaining_tokens |-> hint],
              !.last = kind,
              !.transient_only = @ /\ kind \in Transient]

\* STEP 8: HTTP 200; a body without choices[0].message.content raises
Respond200 ==
    /\ stack # << >>
    /\ Top.pc = "send"
    /\ \E body \in Contents \cup {"malformed"} :
         LET f == Posted(Top, 200, "absent", "ok")
             g == IF body = "malformed"
                  THEN ExceptHandler(f, "Exception")
                  ELSE [Commit(f) EXCEPT !.pc = "returned", !.content = body]
         IN  /\ stack' = SetTop(g)
             /\ ledger' = LedgerAfter(Top, g)
    /\ UNCHANGED <<config, pipeVars, normVars>>

\* STEP 9: HTTP 429
Respond429 ==
    /\ stack # << >>
    /\ Top.pc = "send"
    /\ \E hint \in RemainingHints :
         LET f == Cancel(Posted(Top, 429, hint, "quota"))
             g == IF f.attempt >= 3 THEN AfterLoop(f) ELSE Sleep(f)
         IN  /\ stack' = SetTop(g)
             /\ ledger' = LedgerAfter(Top, g)
    /\ UNCHANGED <<config, pipeVars, normVars>>

\* STEP 10: HTTP 500, 502, 503
Respond5xx ==
    /\ stack # << >>
    /\ Top.pc = "send"
    /\ \E status \in ServerErrorCodes :
         LET g == Sleep(Cancel(Posted(Top, status, "absent", "server_error")))
         IN  /\ stack' = SetTop(g)
             /\ ledger' = LedgerAfter(Top, g)
    /\ UNCHANGED <<config, pipeVars, normVars>>

\* logger.error; response.raise_for_status() for a status >= 400: the
\* HTTPError is raised inside the try block and caught by "except Exception"
RaiseForStatus(f) == ExceptHandler([f EXCEPT !.last = "fatal"], "HTTPError")

\* STEP 11: HTTP 400.  failed is the error's failed_generation:
\*   "json"/"text"/"empty" under code json_validate_failed, "none" otherwise
Respond400 ==
    /\ stack # << >>
    /\ Top.pc = "send"
    /\ \E failed \in Contents \cup {"none"} :
         LET f == Cancel(Posted(Top, 400, "absent", "bad_request"))
         IN  IF f.allow_repair /\ failed = "json"
             THEN \* _attempt_failed_generation_repair reuses the payload
                  LET g == [f EXCEPT !.pc = "returned", !.content = "json"]
                  IN  /\ stack' = SetTop(g)
                      /\ ledger' = LedgerAfter(Top, g)
             ELSE IF f.allow_repair /\ failed = "text"
             THEN \* repair round-trip: nested call_llm(allow_repair=False)
                  LET g == [f EXCEPT !.pc = "repair", !.repairs = @ + 1]
                  IN  /\ stack' = Append(SetTop(g), NewFrame(FALSE))
                      /\ ledger' = LedgerAfter(Top, g)
             ELSE LET g == RaiseForStatus(f)
                  IN  /\ stack' = SetTop(g)
                      /\ ledger' = LedgerAfter(Top, g)
    /\ UNCHANGED <<config, pipeVars, normVars>>

\* the repair sub-call ended: "return call_llm(...)" / "except Exception:
\* return None", then "if fallback: return fallback", else raise_for_status
RepairReturn ==
    /\ Len(stack) = 2
    /\ ~Running(stack[2])
    /\ stack[1].pc = "repair"
    /\ LET sub == stack[2]
           f == stack[1]
           fallback == IF sub.pc = "returned" THEN sub.content ELSE "none"
           h == [f EXCEPT !.nested_sent = @ + sub.sent]
           g == IF fallback \in {"json", "text"}
                THEN [h EXCEPT !.pc = "returned", !.content = fallback,
                               !.from_repair = TRUE]
                ELSE RaiseForStatus(h)
       IN  /\ stack' = << g >>
           /\ ledger' = LedgerAfter(f, g)
    /\ UNCHANGED <<config, pipeVars, normVars>>

\* STEP 11b: any other status >= 400 (auth, not found, ...)
RespondOtherError ==
    /\ stack # << >>
    /\ Top.pc = "send"
    /\ \E status \in OtherErrorCodes :
         LET g == RaiseForStatus(Posted(Top, status, "absent", "fatal"))
         IN  /\ stack' = SetTop(g)
             /\ ledger' = LedgerAfter(Top, g)
    /\ UNCHANGED <<config, pipeVars, normVars>>

\* STEP 11b with a status below 400 other than 200: raise_for_status()
\* returns, STEP 14 cancels, the loop goes on without sleeping
RespondOtherOk ==
    /\ stack # << >>
    /\ Top.pc = "send"
    /\ \E status \in OtherOkCodes :
         LET g == NextAttempt(Cancel(Posted(Top, status, "absent", "other")))
         IN  /\ stack' = SetTop(g)
             /\ ledger' = LedgerAfter(Top, g)
    /\ UNCHANGED <<config, pipeVars, normVars>>

\* STEP 12: requests.post raised Timeout (response keeps its old value)
PostTimeout ==
    /\ stack # << >>
    /\ Top.pc = "send"
    /\ LET f == [Top EXCEPT !.sent = @ + 1, !.last = "timeout"]
           g == ExceptHandler(f, "Timeout")
       IN  /\ stack' = SetTop(g)
           /\ ledger' = LedgerAfter(Top, g)
    /\ UNCHANGED <<config, pipeVars, normVars>>

\* STEP 13: requests.post raised another exception (connection error, ...)
PostException ==
    /\ stack # << >>
    /\ Top.pc = "send"
    /\ LET f == [Top EXCEPT !.sent = @ + 1, !.last = "exception",
                             !.transient_only = FALSE]
           g == ExceptHandler(f, "Exception")
       IN  /\ stack' = SetTop(g)
           /\ ledger' = LedgerAfter(Top, g)
    /\ UNCHANGED <<config, pipeVars, normVars>>

\* time.sleep returns; "continue"
Wake ==
    /\ stack # << >>
    /\ Top.pc = "sleep"
    /\ stack' = SetTop(NextAttempt(Top))
    /\ UNCHANGED <<ledger, config, pipeVars, normVars>>

InitLLM ==
    /\ config \in {"key", "stub", "nokey"}
    /\ stack = << NewFrame(TRUE) >>
    /\ ledger = {}
    /\ MAX_CONCURRENCY = 1
    /\ semaphore = 1
    /\ req = << >>
    /\ db = << >>
    /\ saves = << >>
    /\ NormIdle

NextLLM ==
    \/ StartCall
    \/ Reserve
    \/ Respond200
    \/ Respond429
    \/ Respond5xx
    \/ Respond400
    \/ RepairReturn
    \/ RespondOtherError
    \/ RespondOtherOk
    \/ PostTimeout
    \/ PostException
    \/ Wake

SpecLLM == InitLLM /\ [][NextLLM]_vars

\* call_llm is one sequential activation: whenever a step of it can be
\* taken (the rate limiter's wait, requests.post with its timeout and
\* time.sleep all return), a step is taken
SpecLLMLive == InitLLM /\ [][NextLLM]_vars /\ WF_vars(NextLLM)

(***************************************************************************)
(* Claims about call_llm, checked under SpecLLM                            *)
(***************************************************************************)

Resolutions(f) == f.commits + f.cancels

\* C1: every reservation call_llm obtains is resolved exactly once (one
\* commit or one cancel, never both, never twice, never none) before the
\* call sleeps, starts a repair, returns or raises.
C1_ResolvedExactlyOnce ==
    \A i \in DOMAIN stack :
        LET f == stack[i] IN
        f.entry_id # NoEntry =>
            /\ Resolutions(f) <= 1
            /\ f.pc \in {"sleep", "repair", "returned", "raised"}
                   => Resolutions(f) = 1

\* C4: one top-level call_llm starts at most one repair round-trip.
C4_AtMostOneRepair == stack[1].repairs <= 1

\* C5: a text that call_llm returns from the repair round-trip parses as JSON.
C5_RepairedTextParses ==
    (stack[1].pc = "returned" /\ stack[1].from_repair)
        => stack[1].content = "json"

\* C6: after a non-retryable answer (a status >= 400 other than 429 and
\* 500/502/503, a 400 left unrepaired included) the call has failed: it
\* neither sleeps nor goes on to another request.
C6_NonRetryableFailsAtOnce ==
    \A i \in DOMAIN stack :
        stack[i].last = "fatal" => stack[i].pc = "raised"

\* C7: while every answer was 429, 500/502/503 or a timeout, a call has sent
\* at most 4 requests, and when it ends it has failed after the 4th.
C7_TransientCappedAtFour ==
    \A i \in DOMAIN stack :
        LET f == stack[i] IN
        (f.transient_only /\ f.sent > 0) =>
            /\ f.sent <= 4
            /\ ~Running(f) => (f.pc = "raised" /\ f.sent = 4)

C7_Witness ==
    /\ stack[1].transient_only
    /\ stack[1].pc = "raised"
    /\ stack[1].sent = 4
    /\ stack[1].last = "server_error"

\* C8: a call whose last attempt was answered 429 fails with the quota
\* sub-classification: daily limit when the remaining-tokens hint is "0",
\* per-window rate limit otherwise.
C8_FinalQuotaClassified ==
    (stack[1].pc = "raised" /\ stack[1].last = "quota") =>
        stack[1].error = IF stack[1].response.remaining_tokens = "0"
                         THEN "RuntimeError_daily_limit"
                         ELSE "RuntimeError_rate_limit"

(***************************************************************************)
(* extract_document (api/pipeline.py) and run_pipeline                     *)
(* (pipeline/service/orchestrator.py)                                      *)
(***************************************************************************)

\* bounds of the model
NumRequests == 2
NumContents == 2
MaxGate == 2

Requests == 1..NumRequests
FileContents == 1..NumContents

\* compute_file_hash: the SHA-256 digest depends on the bytes alone, never on
\* the path, and distinct contents of the model have distinct digests
Sha256(content) == <<"sha256", content>>

NoPayload == [source |-> 0, run |-> 0]

\* get_document_by_hash(file_hash)
GetDocumentByHash(file_hash) ==
    IF file_hash \in DOMAIN db THEN db[file_hash] ELSE NoPayload

\* save_document(path, file_hash, raw_text, payload)
SaveDocument(file_hash, payload) ==
    [h \in DOMAIN db \cup {file_hash} |->
        IF h = file_hash THEN payload ELSE db[h]]

IdleRequest ==
    [ pc            |-> "idle",
      content       |-> 0,          \* bytes of the uploaded file
      file_hash     |-> << >>,
      saved_before  |-> FALSE,      \* a save for file_hash preceded the lookup
      extracted     |-> "none",     \* what text extraction gave
      llm_calls     |-> 0,          \* call_llm invocations of this run
      response_text |-> "none",
      result        |-> NoPayload,
      save_calls    |-> 0,          \* save_document calls of this run
      error         |-> "none" ]

InFlight == {"lookup", "extract", "llm", "parse"}

\* the run ends and the permit of the gate is kept
FinishKeepingPermit(r, pc, result, error, saved) ==
    /\ req' = [req EXCEPT ![r].pc = pc, ![r].result = result, ![r].error = error,
                          ![r].save_calls = @ + saved]
    /\ semaphore' = semaphore

\* the run ends (return or raise) and "async with _semaphore" releases
\* saved: the save_document calls the run made on its way out
Finish(r, pc, result, error, saved) ==
    /\ req' = [req EXCEPT ![r].pc = pc, ![r].result = result, ![r].error = error,
                          ![r].save_calls = @ + saved]
    /\ semaphore' = semaphore + 1

\* an upload arrives: content-type check, then the file is written under a
\* fresh uuid name
Upload(r) ==
    /\ req[r].pc = "idle"
    /\ \E allowed \in BOOLEAN, content \in FileContents :
         req' = IF allowed
                THEN [req EXCEPT ![r].pc = "stored", ![r].content = content]
                ELSE [req EXCEPT ![r].pc = "rejected", ![r].error = "HTTP400"]
    /\ UNCHANGED <<MAX_CONCURRENCY, semaphore, db, saves, llmVars, normVars>>

\* the gate letting a run in without a free permit
AcquireUngated(r) ==
    /\ req[r].pc = "stored"
    /\ semaphore' = semaphore - 1
    /\ req' = [req EXCEPT ![r].pc = "lookup"]
    /\ UNCHANGED <<MAX_CONCURRENCY, db, saves, llmVars, normVars>>

\* "async with _semaphore": a permit is taken, run_pipeline starts in a thread
Acquire(r) ==
    /\ req[r].pc = "stored"
    /\ semaphore > 0
    /\ semaphore' = semaphore - 1
    /\ req' = [req EXCEPT ![r].pc = "lookup"]
    /\ UNCHANGED <<MAX_CONCURRENCY, db, saves, llmVars, normVars>>

\* the lookup made but its hit not returned
CacheLookupIgnored(r) ==
    /\ req[r].pc = "lookup"
    /\ LET file_hash == Sha256(req[r].content)
       IN  req' = [req EXCEPT ![r].file_hash = file_hash,
                              ![r].saved_before = saves[file_hash] > 0,
                              ![r].pc = "extract"]
    /\ UNCHANGED <<MAX_CONCURRENCY, semaphore, db, saves, llmVars, normVars>>

\* Step 1 of run_pipeline: hash, lookup, "if cached: return cached"
CacheLookup(r) ==
    /\ req[r].pc = "lookup"
    /\ LET file_hash == Sha256(req[r].content)
           cached == GetDocumentByHash(file_hash)
           seen == [req EXCEPT ![r].file_hash = file_hash,
                               ![r].saved_before = saves[file_hash] > 0]
       IN  IF cached # NoPayload
           THEN /\ req' = [seen EXCEPT ![r].pc = "done", ![r].result = cached]
                /\ semaphore' = semaphore + 1
           ELSE /\ req' = [seen EXCEPT ![r].pc = "extract"]
                /\ UNCHANGED semaphore
    /\ UNCHANGED <<MAX_CONCURRENCY, db, saves, llmVars, normVars>>

\* what _extract_pages can give: no page, pages without a character, fewer
\* characters than TEXT_MIN_LENGTH, or at least that many
Extractions == {"no_pages", "no_chars", "short", "enough"}

\* _ensure_pages(pages): raises on no page and on no character, and only
\* logs a warning on a text below TEXT_MIN_LENGTH
EnsurePages(pages) ==
    IF pages = "no_pages" THEN "ValueError_no_text"
    ELSE IF pages = "no_chars" THEN "ValueError_no_text"
    ELSE "ok"

\* Steps 2-3: detect_source, _extract_pages, _ensure_pages (may raise)
ExtractText(r) ==
    /\ req[r].pc = "extract"
    /\ \E pages \in Extractions :
         LET seen == [req EXCEPT ![r].extracted = pages]
         IN  IF EnsurePages(pages) = "ok"
             THEN /\ req' = [seen EXCEPT ![r].pc = "llm"]
                  /\ UNCHANGED semaphore
             ELSE /\ req' = [seen EXCEPT ![r].pc = "failed",
                                          ![r].error = EnsurePages(pages)]
                  /\ semaphore' = semaphore + 1
    /\ UNCHANGED <<MAX_CONCURRENCY, db, saves, llmVars, normVars>>

\* Steps 4-5: the completion call; call_llm returns a text or raises
CallLLM(r) ==
    /\ req[r].pc = "llm"
    /\ \E outcome \in {"json", "text", "raised"} :
         LET called == [req EXCEPT ![r].llm_calls = @ + 1]
         IN  IF outcome = "raised"
             THEN /\ req' = [called EXCEPT ![r].pc = "failed",
                                           ![r].error = "call_llm_error"]
                  /\ semaphore' = semaphore + 1
             ELSE /\ req' = [called EXCEPT ![r].pc = "parse",
                                           ![r].response_text = outcome]
                  /\ UNCHANGED semaphore
    /\ UNCHANGED <<MAX_CONCURRENCY, db, saves, llmVars, normVars>>

\* the required fields of the parsed documents of the model
VendorNames == {"", "ACME"}
InvoiceDates == {"", "31/01/2024", "2024-01-31"}
ItemCounts == {0, 1}

\* validate_iso_date(value): strptime(value, "%Y-%m-%d")
ValidateIsoDate(value) ==
    IF value = "2024-01-31" THEN "ok" ELSE "ValueError_invalid_date"

\* validate_required_fields(model): "ok" or the error it raises
ValidateRequiredFields(vendor_name, invoice_date, item_count) ==
    IF vendor_name = "" THEN "ValueError_vendor_name_missing"
    ELSE IF invoice_date = "" THEN "ValueError_invoice_date_missing"
    ELSE IF ValidateIsoDate(invoice_date) # "ok" THEN ValidateIsoDate(invoice_date)
    ELSE IF item_count = 0 THEN "ValueError_items_missing"
    ELSE "ok"

ValidationErrors ==
    {"ValueError_vendor_name_missing", "ValueError_invoice_date_missing",
     "ValueError_invalid_date", "ValueError_items_missing"}

\* Steps 6-7 with a run that asks the completion again when the required
\* fields are missing
ParseAndSaveRetrying(r) ==
    /\ req[r].pc = "parse"
    /\ \E vendor_name \in VendorNames, invoice_date \in InvoiceDates,
          item_count \in ItemCounts :
         LET required == ValidateRequiredFields(vendor_name, invoice_date, item_count)
         IN
         IF req[r].response_text # "json"
         THEN /\ Finish(r, "failed", NoPayload, "InvalidLLMResponse", 0)
              /\ UNCHANGED <<db, saves>>
         ELSE IF required # "ok"
         THEN /\ req' = [req EXCEPT ![r].pc = "llm", ![r].error = required]
              /\ UNCHANGED <<semaphore, db, saves>>
         ELSE LET payload == [source |-> req[r].content, run |-> r]
              IN  /\ db' = SaveDocument(req[r].file_hash, payload)
                  /\ saves' = [saves EXCEPT ![req[r].file_hash] = @ + 1]
                  /\ Finish(r, "done", payload, "none", 1)
    /\ UNCHANGED <<MAX_CONCURRENCY, llmVars, normVars>>

\* Steps 6-7 with a run that stores the payload before it validates it
ParseAndSaveEager(r) ==
    /\ req[r].pc = "parse"
    /\ \E vendor_name \in VendorNames, invoice_date \in InvoiceDates,
          item_count \in ItemCounts :
         LET required == ValidateRequiredFields(vendor_name, invoice_date, item_count)
             payload == [source |-> req[r].content, run |-> r]
         IN
         IF req[r].response_text # "json"
         THEN /\ Finish(r, "failed", NoPayload, "InvalidLLMResponse", 0)
              /\ UNCHANGED <<db, saves>>
         ELSE /\ db' = SaveDocument(req[r].file_hash, payload)
              /\ saves' = [saves EXCEPT ![req[r].file_hash] = @ + 1]
              /\ IF required # "ok"
                 THEN Finish(r, "failed", NoPayload, required, 1)
                 ELSE Finish(r, "done", payload, "none", 1)
    /\ UNCHANGED <<MAX_CONCURRENCY, llmVars, normVars>>

\* Steps 6-7: _parse_and_normalize (parse_response, validate_required_fields
\* may raise), then save_document and return
ParseAndSave(r) ==
    /\ req[r].pc = "parse"
    /\ \E vendor_name \in VendorNames, invoice_date \in InvoiceDates,
          item_count \in ItemCounts :
         LET required == ValidateRequiredFields(vendor_name, invoice_date, item_count)
         IN
         IF req[r].response_text # "json"
         THEN /\ Finish(r, "failed", NoPayload, "InvalidLLMResponse", 0)
              /\ UNCHANGED <<db, saves>>
         ELSE IF required # "ok"
         THEN /\ Finish(r, "failed", NoPayload, required, 0)
              /\ UNCHANGED <<db, saves>>
         ELSE LET payload == [source |-> req[r].content, run |-> r]
              IN  /\ db' = SaveDocument(req[r].file_hash, payload)
                  /\ saves' = [saves EXCEPT ![req[r].file_hash] = @ + 1]
                  /\ Finish(r, "done", payload, "none", 1)
    /\ UNCHANGED <<MAX_CONCURRENCY, llmVars, normVars>>

LLMIdle ==
    /\ config = "key"
    /\ stack = << >>
    /\ ledger = {}

InitPipe ==
    /\ MAX_CONCURRENCY \in 1..MaxGate
    /\ semaphore = MAX_CONCURRENCY
    /\ req = [r \in Requests |-> IdleRequest]
    /\ db = << >>
    /\ saves = [h \in {Sha256(c) : c \in FileContents} |-> 0]
    /\ LLMIdle
    /\ NormIdle

NextPipe ==
    \/ \E r \in Requests : Upload(r)
    \/ \E r \in Requests : Acquire(r)
    \/ \E r \in Requests : CacheLookup(r)
    \/ \E r \in Requests : ExtractText(r)
    \/ \E r \in Requests : CallLLM(r)
    \/ \E r \in Requests : ParseAndSave(r)

SpecPipe == InitPipe /\ [][NextPipe]_vars

\* Scheduling: an asyncio.Semaphore wakes its waiters in arrival order, the
\* worker thread of an admitted run keeps running, and every step of
\* run_pipeline ends (the completion call has bounded retries and a request
\* timeout).  Nothing obliges a client to upload.
FairPipe ==
    \A r \in Requests :
        /\ WF_vars(Acquire(r))
        /\ WF_vars(CacheLookup(r))
        /\ WF_vars(ExtractText(r))
        /\ WF_vars(CallLLM(r))
        /\ WF_vars(ParseAndSave(r))

SpecPipeLive == InitPipe /\ [][NextPipe]_vars /\ FairPipe

(***************************************************************************)
(* Claims about the cache gate, checked under SpecPipe                     *)
(***************************************************************************)

Uploaded(r) == req[r].content # 0

\* C2 (as stated): of two runs on byte-identical content at most one issues
\* a completion call.
C2_AtMostOneCall ==
    \A r1, r2 \in Requests :
        (r1 # r2 /\ Uploaded(r1) /\ req[r1].content = req[r2].content)
            => req[r1].llm_calls + req[r2].llm_calls <= 1

\* C2 (amended): a run whose cache lookup comes after a save for the same
\* content hash issues no completion call and returns the payload another
\* run saved for that content.
C2_NoCallAfterSave ==
    \A r \in Requests :
        req[r].saved_before =>
            /\ req[r].llm_calls = 0
            /\ req[r].pc = "done"
            /\ req[r].result # NoPayload
            /\ req[r].result.source = req[r].content
            /\ req[r].result.run # r

C2_Witness ==
    \E r1, r2 \in Requests :
        /\ r1 # r2
        /\ req[r1].content = req[r2].content
        /\ req[r1].pc = "done" /\ req[r1].llm_calls = 1
        /\ req[r2].pc = "done" /\ req[r2].saved_before
        /\ req[r2].result = req[r1].result

\* C3 (as stated): save_document is invoked at most once per content hash,
\* whatever the runs and however they overlap.
C3_SaveOncePerHash == \A h \in DOMAIN saves : saves[h] <= 1

\* C3 (amended): with the admission limit at 1 (the default) the runs are
\* serial and save_document is invoked at most once per content hash.
C3_SaveOnceWhenSerial ==
    MAX_CONCURRENCY = 1 => \A h \in DOMAIN saves : saves[h] <= 1

C3_Witness ==
    /\ MAX_CONCURRENCY = 1
    /\ \E r1, r2 \in Requests :
         /\ r1 # r2
         /\ req[r1].content = req[r2].content
         /\ req[r1].pc = "done" /\ req[r1].result.run = r1
         /\ req[r2].pc = "done" /\ req[r2].result.run = r1
         /\ saves[req[r1].file_hash] = 1

(***************************************************************************)
(* Claims about failures and the admission gate of the pipeline            *)
(***************************************************************************)

\* C17: a validation failure (missing vendor name, missing date, non-ISO
\* date, no items) aborts the run: the error leaves run_pipeline, the run
\* made its one completion call and makes no other, returns no payload and
\* saves none.
C17_ValidationAborts ==
    \A r \in Requests :
        req[r].error \in ValidationErrors =>
            /\ req[r].pc = "failed"
            /\ req[r].llm_calls = 1
            /\ req[r].result = NoPayload
            /\ \A h \in DOMAIN db : db[h].run # r

C17_Witness ==
    \E r1, r2 \in Requests :
        /\ req[r1].pc = "failed"
        /\ req[r1].error = "ValueError_invalid_date"
        /\ req[r1].llm_calls = 1
        /\ req[r2].pc = "failed"
        /\ req[r2].error = "ValueError_items_missing"
        /\ db = << >>

\* C18: when text extraction gives no page, no character, or fewer
\* characters than the configured minimum, run_pipeline fails with an error
\* before any completion call is issued.
C18_ShortTextFailsBeforeCall ==
    \A r \in Requests :
        req[r].extracted \in {"no_pages", "no_chars", "short"} =>
            /\ req[r].pc = "failed"
            /\ req[r].error = "ValueError_no_text"
            /\ req[r].llm_calls = 0

\* run_pipeline executions in flight
Running_pipelines == {r \in Requests : req[r].pc \in InFlight}

GateBound ==
    /\ Cardinality(Running_pipelines) <= MAX_CONCURRENCY
    /\ semaphore = MAX_CONCURRENCY - Cardinality(Running_pipelines)

\* C19: at any moment at most MAX_CONCURRENCY run_pipeline executions are in
\* flight, every exit of a run (return or raise) gives its permit back, and
\* a request waiting at the gate is eventually admitted.
C19_GateBoundsAndAdmits ==
    /\ []GateBound
    /\ \A r \in Requests : (req[r].pc = "stored") ~> (req[r].pc = "lookup")

C19_Witness ==
    /\ MAX_CONCURRENCY = 1
    /\ semaphore = 0
    /\ \E r1, r2 \in Requests :
         /\ req[r1].pc = "failed"
         /\ req[r2].pc \in InFlight

(***************************************************************************)
(* Amount normalization (pipeline/service/normalizer.py)                   *)
(***************************************************************************)

\* bounds of the model: amounts are 0..MaxAmount and a few amounts around
\* 2000, where the 0.1% tolerance exceeds 1 and the scale factors show
MaxAmount == 5
MaxPasses == 2

\* an absent (None) amount
None == -1

LargeAmounts == {1998, 2000}
Amounts == 0..MaxAmount \cup LargeAmounts
Nullable == Amounts \cup {None}
ItemSums == {0, 2, 20, 200}

Headers ==
    [subtotal_cents : Nullable, tax_cents : Nullable,
     total_cents : Nullable, discount_cents : Nullable]

Max(a, b) == IF a >= b THEN a ELSE b
Abs(a) == IF a >= 0 THEN a ELSE -a

\* "tax or 0"
OrZero(value) == IF value = None THEN 0 ELSE value

\* the write-back without the clamp at zero
ClampAbsentOnly(value) == value

\* _clamp: max(int(round(value)), 0), None kept
Clamp(value) == IF value = None THEN None ELSE Max(value, 0)

AllPresent(subtotal, tax, total) ==
    subtotal # None /\ tax # None /\ total # None

\* the pattern chain with pattern 1 applied whatever its candidate tax
ApplyPatternUnguarded(subtotal, tax, total, discount) ==
    LET same == [subtotal |-> subtotal, tax |-> tax, total |-> total, pattern |-> 0]
    IN
    IF ~AllPresent(subtotal, tax, total) THEN same
    ELSE IF /\ 100 * subtotal >= 95 * total
            /\ tax + discount < total
            /\ tax > 0
    THEN [subtotal |-> tax, tax |-> total - tax + discount,
          total |-> total, pattern |-> 1]
    ELSE same

\* the pattern chain with the recomputed tax of patterns 2 and 3 leaving the
\* discount out
ApplyPatternNoDiscount(subtotal, tax, total, discount) ==
    LET same == [subtotal |-> subtotal, tax |-> tax, total |-> total, pattern |-> 0]
    IN
    IF ~AllPresent(subtotal, tax, total) THEN same
    ELSE IF /\ 100 * subtotal >= 95 * total
            /\ tax + discount < total
            /\ tax > 0
    THEN LET new_subtotal == tax
             new_tax == total - new_subtotal
         IN  IF new_tax > 0 /\ new_tax < new_subtotal
             THEN [subtotal |-> new_subtotal, tax |-> new_tax,
                   total |-> total, pattern |-> 1]
             ELSE same
    ELSE IF subtotal = tax /\ total > subtotal /\ total > 0
    THEN LET new_tax == total - subtotal
         IN  IF new_tax > 0 /\ new_tax < subtotal
             THEN [subtotal |-> subtotal, tax |-> new_tax,
                   total |-> total, pattern |-> 2]
             ELSE same
    ELSE same

\* the pattern chain with pattern 4 leaving the discount out of the new tax
ApplyPatternP4Plain(subtotal, tax, total, discount) ==
    LET same == [subtotal |-> subtotal, tax |-> tax, total |-> total, pattern |-> 0]
    IN
    IF ~AllPresent(subtotal, tax, total) THEN same
    ELSE IF /\ 100 * subtotal >= 95 * total
            /\ tax + discount < total
            /\ tax > 0
    THEN LET new_subtotal == tax
             new_tax == total - new_subtotal + discount
         IN  IF new_tax > 0 /\ new_tax < new_subtotal
             THEN [subtotal |-> new_subtotal, tax |-> new_tax,
                   total |-> total, pattern |-> 1]
             ELSE same
    ELSE IF subtotal = tax /\ total > subtotal /\ total > 0
    THEN LET new_tax == total - subtotal + discount
         IN  IF new_tax > 0 /\ new_tax < subtotal
             THEN [subtotal |-> subtotal, tax |-> new_tax,
                   total |-> total, pattern |-> 2]
             ELSE same
    ELSE IF tax = total /\ subtotal < total /\ subtotal > 0
    THEN LET new_tax == total - subtotal + discount
         IN  IF new_tax > 0 /\ new_tax < subtotal
             THEN [subtotal |-> subtotal, tax |-> new_tax,
                   total |-> total, pattern |-> 3]
             ELSE same
    ELSE IF tax > total /\ subtotal = total /\ subtotal > 0
    THEN [subtotal |-> subtotal, tax |-> tax - subtotal,
          total |-> tax, pattern |-> 4]
    ELSE same

\* the if/elif chain of patterns 1-4: the first whose condition holds is
\* taken, and its sanity bound decides whether anything changes
ApplyPattern(subtotal, tax, total, discount) ==
    LET same == [subtotal |-> subtotal, tax |-> tax, total |-> total, pattern |-> 0]
    IN
    IF ~AllPresent(subtotal, tax, total) THEN same
    ELSE IF /\ 100 * subtotal >= 95 * total      \* subtotal >= total * 0.95
            /\ tax + discount < total
            /\ tax > 0
    THEN LET new_subtotal == tax
             new_tax == total - new_subtotal + discount
         IN  IF new_tax > 0 /\ new_tax < new_subtotal
             THEN [subtotal |-> new_subtotal, tax |-> new_tax,
                   total |-> total, pattern |-> 1]
             ELSE same
    ELSE IF subtotal = tax /\ total > subtotal /\ total > 0
    THEN LET new_tax == total - subtotal + discount
         IN  IF new_tax > 0 /\ new_tax < subtotal
             THEN [subtotal |-> subtotal, tax |-> new_tax,
                   total |-> total, pattern |-> 2]
             ELSE same
    ELSE IF tax = total /\ subtotal < total /\ subtotal > 0
    THEN LET new_tax == total - subtotal + discount
         IN  IF new_tax > 0 /\ new_tax < subtotal
             THEN [subtotal |-> subtotal, tax |-> new_tax,
                   total |-> total, pattern |-> 3]
             ELSE same
    ELSE IF tax > total /\ subtotal = total /\ subtotal > 0
    THEN [subtotal |-> subtotal, tax |-> tax - subtotal + discount,
          total |-> tax, pattern |-> 4]
    ELSE same

\* the three inference steps, in the order of the code: subtotal, tax, total
InferMissing(subtotal, tax, total, discount) ==
    LET s2 == IF subtotal = None /\ total # None
                 /\ total - OrZero(tax) + discount >= 0
              THEN total - OrZero(tax) + discount
              ELSE subtotal
        t2 == IF tax = None /\ s2 # None /\ total # None
                 /\ total - s2 + discount >= 0
              THEN total - s2 + discount
              ELSE tax
        T2 == IF total = None /\ s2 # None
                 /\ s2 + OrZero(t2) - discount >= 0
              THEN s2 + OrZero(t2) - discount
              ELSE total
    IN  [subtotal |-> s2, tax |-> t2, total |-> T2]

\* normalize_invoice_amounts(invoice)
NormalizeInvoiceAmounts(inv) ==
    LET given == IF inv.discount_cents # None THEN inv.discount_cents ELSE 0
        discount == IF given < 0 THEN 0 ELSE given
        fixed == ApplyPattern(inv.subtotal_cents, inv.tax_cents,
                              inv.total_cents, discount)
        full == InferMissing(fixed.subtotal, fixed.tax, fixed.total, discount)
    IN  [subtotal_cents |-> Clamp(full.subtotal),
         tax_cents      |-> Clamp(full.tax),
         total_cents    |-> Clamp(full.total),
         discount_cents |-> Clamp(discount)]

\* int(round(value / scale)): Python rounds a tie to the even neighbour
RoundDiv(value, scale) ==
    LET q == value \div scale
        r == value % scale
    IN  IF 2 * r < scale THEN q
        ELSE IF 2 * r > scale THEN q + 1
        ELSE IF q % 2 = 0 THEN q ELSE q + 1

\* abs(amount / items_sum - candidate) <= max(0.05 * candidate, 0.5)
NearFactor(amount, sum, candidate) ==
    LET twice_tolerance == IF candidate >= 10 THEN Max(candidate \div 10, 1) ELSE 1
    IN  2 * Abs(amount - candidate * sum) <= twice_tolerance * sum

\* the candidates (1000, 100, 10) tried in that order for one amount
FactorOf(amount, sum) ==
    IF amount = None \/ amount <= 0 THEN 0
    ELSE IF NearFactor(amount, sum, 1000) THEN 1000
    ELSE IF NearFactor(amount, sum, 100) THEN 100
    ELSE IF NearFactor(amount, sum, 10) THEN 10
    ELSE 0

\* the detection with the fields tried in the opposite order
DetectScaleFactorReversed(inv, sum) ==
    IF FactorOf(inv.discount_cents, sum) # 0 THEN FactorOf(inv.discount_cents, sum)
    ELSE IF FactorOf(inv.tax_cents, sum) # 0 THEN FactorOf(inv.tax_cents, sum)
    ELSE IF FactorOf(inv.subtotal_cents, sum) # 0 THEN FactorOf(inv.subtotal_cents, sum)
    ELSE IF FactorOf(inv.total_cents, sum) # 0 THEN FactorOf(inv.total_cents, sum)
    ELSE 1

\* _detect_scale_factor: total, subtotal, tax, discount in that order
DetectScaleFactor(inv, sum) ==
    IF FactorOf(inv.total_cents, sum) # 0 THEN FactorOf(inv.total_cents, sum)
    ELSE IF FactorOf(inv.subtotal_cents, sum) # 0 THEN FactorOf(inv.subtotal_cents, sum)
    ELSE IF FactorOf(inv.tax_cents, sum) # 0 THEN FactorOf(inv.tax_cents, sum)
    ELSE IF FactorOf(inv.discount_cents, sum) # 0 THEN FactorOf(inv.discount_cents, sum)
    ELSE 1

Scaled(value, scale) ==
    IF value = None THEN None ELSE Max(RoundDiv(value, scale), 0)

\* harmonize_amount_scale(invoice, items_sum)
HarmonizeAmountScale(inv, sum) ==
    IF sum <= 0 THEN inv
    ELSE LET scale == DetectScaleFactor(inv, sum)
         IN  IF scale = 1 THEN inv
             ELSE [subtotal_cents |-> Scaled(inv.subtotal_cents, scale),
                   tax_cents      |-> Scaled(inv.tax_cents, scale),
                   total_cents    |-> Scaled(inv.total_cents, scale),
                   discount_cents |-> Scaled(inv.discount_cents, scale)]

\* max(1, int(max(total, 1) * 0.001))
Tolerance(total) == Max(1, Max(total, 1) \div 1000)

\* the recomputation with a tolerance of 1% in place of 0.1%
RecomputeDiscountLoose(inv, discount_locked) ==
    IF discount_locked THEN inv
    ELSE IF inv.subtotal_cents = None \/ inv.total_cents = None THEN inv
    ELSE LET raw == inv.subtotal_cents + OrZero(inv.tax_cents) - inv.total_cents
             tolerance == Max(1, Max(inv.total_cents, 1) \div 100)
             expected == IF raw < 0 /\ Abs(raw) <= tolerance THEN 0 ELSE raw
         IN  IF expected < 0 THEN inv
             ELSE IF Abs(expected - OrZero(inv.discount_cents)) > tolerance
             THEN [inv EXCEPT !.discount_cents = expected]
             ELSE inv

\* the recomputation paying no attention to the lock
RecomputeDiscountUnlocked(inv, discount_locked) ==
    IF inv.subtotal_cents = None \/ inv.total_cents = None THEN inv
    ELSE LET raw == inv.subtotal_cents + OrZero(inv.tax_cents) - inv.total_cents
             tolerance == Tolerance(inv.total_cents)
             expected == IF raw < 0 /\ Abs(raw) <= tolerance THEN 0 ELSE raw
         IN  IF expected < 0 THEN inv
             ELSE IF Abs(expected - OrZero(inv.discount_cents)) > tolerance
             THEN [inv EXCEPT !.discount_cents = expected]
             ELSE inv

\* recompute_discount(invoice, discount_locked)
RecomputeDiscount(inv, discount_locked) ==
    IF discount_locked THEN inv
    ELSE IF inv.subtotal_cents = None \/ inv.total_cents = None THEN inv
    ELSE LET raw == inv.subtotal_cents + OrZero(inv.tax_cents) - inv.total_cents
             tolerance == Tolerance(inv.total_cents)
             expected == IF raw < 0 /\ Abs(raw) <= tolerance THEN 0 ELSE raw
         IN  IF expected < 0 THEN inv
             ELSE IF Abs(expected - OrZero(inv.discount_cents)) > tolerance
             THEN [inv EXCEPT !.discount_cents = expected]
             ELSE inv

\* Step 3 of _parse_and_normalize: no discount wording, discount forced to 0
DefensiveDiscount(inv, worded) ==
    IF worded THEN inv ELSE [inv EXCEPT !.discount_cents = 0]

\* the amount stages of _parse_and_normalize, in the order of the code
ParsedAmounts(inv, sum, worded) ==
    RecomputeDiscount(
        NormalizeInvoiceAmounts(
            HarmonizeAmountScale(
                NormalizeInvoiceAmounts(DefensiveDiscount(inv, worded)), sum)),
        FALSE)

\* one more normalize_invoice_amounts pass over the header
NormalizePass ==
    /\ stage = "header"
    /\ passes < MaxPasses
    /\ before' = invoice
    /\ invoice' = NormalizeInvoiceAmounts(invoice)
    /\ passes' = passes + 1
    /\ UNCHANGED <<items_sum, discount_worded, fields_ok, stage, itemVars, noteVars, llmVars, pipeVars>>

InitNorm ==
    /\ invoice \in Headers
    /\ before = invoice
    /\ passes = 0
    /\ items_sum = 0
    /\ discount_worded = FALSE
    /\ fields_ok = FALSE
    /\ ItemsIdle
    /\ NotesIdle
    /\ stage = "header"
    /\ LLMIdle
    /\ MAX_CONCURRENCY = 1
    /\ semaphore = 1
    /\ req = << >>
    /\ db = << >>
    /\ saves = << >>

NextNorm == NormalizePass

SpecNorm == InitNorm /\ [][NextNorm]_vars

\* _parse_and_normalize on a parsed candidate: the amount stages, then
\* validate_required_fields accepts the document or raises
ParseAndNormalize ==
    /\ stage = "candidate"
    /\ before' = invoice
    /\ invoice' = ParsedAmounts(invoice, items_sum, discount_worded)
    /\ stage' = IF fields_ok THEN "accepted" ELSE "rejected"
    /\ UNCHANGED <<passes, items_sum, discount_worded, fields_ok, itemVars, noteVars, llmVars, pipeVars>>

InitParse ==
    /\ invoice \in Headers
    /\ before = invoice
    /\ passes = 0
    /\ items_sum \in ItemSums
    /\ discount_worded \in BOOLEAN
    /\ fields_ok \in BOOLEAN
    /\ ItemsIdle
    /\ NotesIdle
    /\ stage = "candidate"
    /\ LLMIdle
    /\ MAX_CONCURRENCY = 1
    /\ semaphore = 1
    /\ req = << >>
    /\ db = << >>
    /\ saves = << >>

NextParse == ParseAndNormalize

SpecParse == InitParse /\ [][NextParse]_vars

(***************************************************************************)
(* Claims about the amounts, checked under SpecNorm and SpecParse          *)
(***************************************************************************)

\* C9: normalize_invoice_amounts is idempotent: a second pass over its own
\* output leaves subtotal, tax, total and discount unchanged.
C9_Idempotent == passes >= 2 => invoice = before

Identity(inv) ==
    inv.subtotal_cents + inv.tax_cents - inv.discount_cents - inv.total_cents

Accepted3 ==
    /\ stage = "accepted"
    /\ AllPresent(invoice.subtotal_cents, invoice.tax_cents, invoice.total_cents)

\* C10 (as stated): an accepted payload with subtotal, tax and total present
\* has total = subtotal + tax - discount, within one unit of rounding.
C10_IdentityHolds == Accepted3 => Abs(Identity(invoice)) <= 1

\* C10 (amended): an accepted payload with subtotal, tax and total present
\* and subtotal + tax >= total has total = subtotal + tax - discount within
\* max(1, 0.1% of total); one with subtotal + tax < total beyond that
\* tolerance is returned as it is.
C10_IdentityWhenCovered ==
    (Accepted3 /\ invoice.subtotal_cents + invoice.tax_cents >= invoice.total_cents)
        => Abs(Identity(invoice)) <= Tolerance(invoice.total_cents)

C10_Witness ==
    /\ Accepted3
    /\ AllPresent(before.subtotal_cents, before.tax_cents, before.total_cents)
    /\ before.discount_cents = 0
    /\ discount_worded
    /\ invoice.total_cents >= 2000
    /\ invoice.discount_cents > Tolerance(invoice.total_cents)
    /\ Identity(invoice) = 0

(***************************************************************************)
(* normalize_invoice_amounts on headers of invoice size                    *)
(***************************************************************************)

\* amounts of the size found on an invoice (cents), absent included
InvoiceAmounts == {0, 500, 900, 1000, 9100, 9500, 10000, 10500}

InvoiceHeaders ==
    [subtotal_cents : InvoiceAmounts \cup {None},
     tax_cents      : InvoiceAmounts \cup {None},
     total_cents    : InvoiceAmounts \cup {None},
     discount_cents : {0, 500, None}]

InitInvoice ==
    /\ invoice \in InvoiceHeaders
    /\ before = invoice
    /\ passes = 0
    /\ items_sum = 0
    /\ discount_worded = FALSE
    /\ fields_ok = FALSE
    /\ ItemsIdle
    /\ NotesIdle
    /\ stage = "header"
    /\ LLMIdle
    /\ MAX_CONCURRENCY = 1
    /\ semaphore = 1
    /\ req = << >>
    /\ db = << >>
    /\ saves = << >>

SpecInvoice == InitInvoice /\ [][NextNorm]_vars

P1Example ==
    [subtotal_cents |-> 10000, tax_cents |-> 900,
     total_cents |-> 10000, discount_cents |-> 0]

\* the first pass over the header the run started from has been made
FirstPass == passes = 1

\* C11 (as stated): normalizing subtotal=10000, tax=900, total=10000,
\* discount=0 yields subtotal=900 and tax=9100.
C11_P1ExampleSwapped ==
    (FirstPass /\ before = P1Example)
        => invoice.subtotal_cents = 900 /\ invoice.tax_cents = 9100

\* the condition of pattern 1 on a header with all three amounts
P1Matches(inv) ==
    /\ AllPresent(inv.subtotal_cents, inv.tax_cents, inv.total_cents)
    /\ 100 * inv.subtotal_cents >= 95 * inv.total_cents
    /\ inv.tax_cents + OrZero(inv.discount_cents) < inv.total_cents
    /\ inv.tax_cents > 0

\* C11 (amended): when pattern 1 matches, the swap (subtotal := tax,
\* tax := total - tax + discount) is made only if the new tax is positive and
\* below the new subtotal, and otherwise the header is left as it is; so
\* subtotal=10000, tax=900, total=10000, discount=0 comes back unchanged
\* (9100 is not below 900), while subtotal=10000, tax=9100, total=10000
\* yields subtotal=9100, tax=900.
C11_P1SwapWithinBound ==
    (FirstPass /\ P1Matches(before)) =>
        LET new_tax == before.total_cents - before.tax_cents
                           + OrZero(before.discount_cents)
        IN  /\ invoice.total_cents = before.total_cents
            /\ IF new_tax > 0 /\ new_tax < before.tax_cents
               THEN /\ invoice.subtotal_cents = before.tax_cents
                    /\ invoice.tax_cents = new_tax
               ELSE /\ invoice.subtotal_cents = before.subtotal_cents
                    /\ invoice.tax_cents = before.tax_cents

C11_Witness ==
    /\ FirstPass
    /\ before = P1Example
    /\ invoice = P1Example

P2Example ==
    [subtotal_cents |-> 9500, tax_cents |-> 9500,
     total_cents |-> 10500, discount_cents |-> 0]

\* the case of pattern 2: net worth duplicated into tax, and the recomputed
\* tax within its bound
P2Case(inv) ==
    /\ AllPresent(inv.subtotal_cents, inv.tax_cents, inv.total_cents)
    /\ inv.subtotal_cents = inv.tax_cents
    /\ inv.total_cents > inv.subtotal_cents
    /\ inv.subtotal_cents > 0
    /\ inv.total_cents - inv.subtotal_cents + OrZero(inv.discount_cents) > 0
    /\ inv.total_cents - inv.subtotal_cents + OrZero(inv.discount_cents)
           < inv.subtotal_cents

\* C12: whenever subtotal == tax, total > subtotal > 0 and
\* 0 < total - subtotal + discount < subtotal, normalization sets tax to
\* total - subtotal + discount and leaves subtotal and total unchanged
\* (whether or not pattern 1 matches too: its swap gives the same header);
\* subtotal=9500, tax=9500, total=10500, discount=0 yields tax=1000.
C12_P2RecomputesTax ==
    /\ (FirstPass /\ P2Case(before)) =>
           /\ invoice.tax_cents = before.total_cents - before.subtotal_cents
                                      + OrZero(before.discount_cents)
           /\ invoice.subtotal_cents = before.subtotal_cents
           /\ invoice.total_cents = before.total_cents
    /\ (FirstPass /\ before = P2Example) =>
           invoice = [P2Example EXCEPT !.tax_cents = 1000]

C12_Witness ==
    /\ FirstPass
    /\ before = P2Example
    /\ ~P1Matches(before)
    /\ invoice.tax_cents = 1000
    /\ invoice.subtotal_cents = 9500

(***************************************************************************)
(* harmonize_amount_scale on a header and a line-item sum                  *)
(***************************************************************************)

\* header amounts around 10, 100 and 1000 times the item sums
ScaleAmounts == {0, 3, 200, 1500, 2000, 2100, 10000000}
ScaleSums == {0, 2, 10000}

ScaleHeaders ==
    [subtotal_cents : ScaleAmounts \cup {None},
     tax_cents      : ScaleAmounts \cup {None},
     total_cents    : ScaleAmounts \cup {None},
     discount_cents : ScaleAmounts \cup {None}]

\* harmonize_amount_scale(invoice, items_sum), once the items are summed
HarmonizePass ==
    /\ stage = "summed"
    /\ before' = invoice
    /\ invoice' = HarmonizeAmountScale(invoice, items_sum)
    /\ stage' = "scaled"
    /\ UNCHANGED <<passes, items_sum, discount_worded, fields_ok, itemVars, noteVars, llmVars, pipeVars>>

InitScale ==
    /\ invoice \in ScaleHeaders
    /\ before = invoice
    /\ passes = 0
    /\ items_sum \in ScaleSums
    /\ discount_worded = FALSE
    /\ fields_ok = FALSE
    /\ ItemsIdle
    /\ NotesIdle
    /\ stage = "summed"
    /\ LLMIdle
    /\ MAX_CONCURRENCY = 1
    /\ semaphore = 1
    /\ req = << >>
    /\ db = << >>
    /\ saves = << >>

NextScale == HarmonizePass

SpecScale == InitScale /\ [][NextScale]_vars

AmountFields == {"subtotal_cents", "tax_cents", "total_cents", "discount_cents"}

\* |amount / items_sum - factor| <= 5% of the factor
WithinOf(amount, factor) ==
    /\ amount # None
    /\ amount > 0
    /\ 20 * Abs(amount - factor * items_sum) <= factor * items_sum

NearSomeFactor(amount) ==
    WithinOf(amount, 1000) \/ WithinOf(amount, 100) \/ WithinOf(amount, 10)

\* every present amount of the header has been divided by 1000, to the
\* nearest integer
DividedBy1000 ==
    \A f \in AmountFields :
        IF before[f] = None THEN invoice[f] = None
        ELSE /\ invoice[f] # None
             /\ invoice[f] >= 0
             /\ 2 * Abs(1000 * invoice[f] - before[f]) <= 1000

MaxItems == 3

\* A description is the sequence of its words (the text is the words joined
\* by single spaces; << >> is the empty description).  The summary keywords
\* and the currency pattern hold no white space, so each of them is found
\* inside one word, and joining two descriptions with a space adds no match.
Words == {"Widget", "SHIPPING", "$5"}
Descriptions == {<< >>} \cup {<<w>> : w \in Words}

\* any(word in description.lower() for word in keywords)
HasSummaryKeyword(description) ==
    \E k \in 1..Len(description) : description[k] = "SHIPPING"

\* contains_currency_amount(text): CURRENCY_TOKEN.search
ContainsCurrencyAmount(description) ==
    \E k \in 1..Len(description) : description[k] = "$5"

\* quantity, unit price and line total of the items of the model
Pricings ==
    { [qty |-> 1, unit_price_cents |-> None, line_total_cents |-> 5],
      [qty |-> 2, unit_price_cents |-> 5,    line_total_cents |-> 5],
      [qty |-> 2, unit_price_cents |-> None, line_total_cents |-> 5],
      [qty |-> 1, unit_price_cents |-> None, line_total_cents |-> 7] }

Item(idx, description, pricing) ==
    [ idx              |-> idx,
      description      |-> description,
      qty              |-> pricing.qty,
      unit_price_cents |-> pricing.unit_price_cents,
      line_total_cents |-> pricing.line_total_cents ]

\* the headers the items are reconciled against: tax 7 and no discount, or
\* no tax and discount 7
ItemsHeaders ==
    { [subtotal_cents |-> None, tax_cents |-> 7,
       total_cents |-> None, discount_cents |-> 0],
      [subtotal_cents |-> None, tax_cents |-> None,
       total_cents |-> None, discount_cents |-> 7] }

\* is_summary_only_item(item, invoice)
IsSummaryOnlyItem(item, inv) ==
    IF item.description = << >> THEN FALSE
    ELSE IF HasSummaryKeyword(item.description) THEN TRUE
    ELSE item.line_total_cents \in {inv.discount_cents, inv.tax_cents}

\* is_descriptor_line(item, previous, invoice)
IsDescriptorLine(item, previous, inv) ==
    IF item.description = << >> THEN FALSE
    ELSE IF item.unit_price_cents \notin {None, 0} THEN FALSE
    ELSE IF item.qty \notin {None, 0, 1} THEN FALSE
    ELSE IF ContainsCurrencyAmount(item.description) THEN FALSE
    ELSE item.line_total_cents \in
             {previous.line_total_cents, inv.discount_cents, inv.tax_cents, None, 0}

\* f"{previous.description} {item.description}".strip()
JoinDescriptions(left, right) == left \o right

\* the loop with the summary test applied to the first item as well
RECURSIVE MergeLoopFiltering(_, _, _, _)
MergeLoopFiltering(list, i, merged, inv) ==
    IF i > Len(list) THEN merged
    ELSE LET item == list[i]
             last == Len(merged)
         IN  IF IsSummaryOnlyItem(item, inv)
             THEN MergeLoopFiltering(list, i + 1, merged, inv)
             ELSE IF merged = << >>
             THEN MergeLoopFiltering(list, i + 1, <<item>>, inv)
             ELSE IF IsDescriptorLine(item, merged[last], inv)
             THEN MergeLoopFiltering(list, i + 1,
                     [merged EXCEPT ![last].description =
                          JoinDescriptions(@, item.description)], inv)
             ELSE MergeLoopFiltering(list, i + 1, Append(merged, item), inv)

\* the loop of merge_descriptor_items from item i on, merged being the items
\* retained so far
RECURSIVE MergeLoop(_, _, _, _)
MergeLoop(list, i, merged, inv) ==
    IF i > Len(list) THEN merged
    ELSE LET item == list[i]
             last == Len(merged)
         IN  IF merged = << >>
             THEN MergeLoop(list, i + 1, <<item>>, inv)
             ELSE IF IsSummaryOnlyItem(item, inv)
             THEN MergeLoop(list, i + 1, merged, inv)
             ELSE IF IsDescriptorLine(item, merged[last], inv)
             THEN MergeLoop(list, i + 1,
                     [merged EXCEPT ![last].description =
                          JoinDescriptions(@, item.description)], inv)
             ELSE MergeLoop(list, i + 1, Append(merged, item), inv)

\* the retained items with their input indices kept
ReindexKept(merged) == merged

\* "for idx, item in enumerate(merged, start=1): item.idx = idx"
Reindex(merged) ==
    [k \in 1..Len(merged) |-> [merged[k] EXCEPT !.idx = k]]

\* merge_descriptor_items(items, invoice)
MergeDescriptorItems(list, inv) ==
    IF list = << >> THEN list
    ELSE Reindex(MergeLoop(list, 1, << >>, inv))

\* one more merge_descriptor_items pass over the item list
MergePass ==
    /\ stage = "items"
    /\ passes < MaxPasses
    /\ items_before' = items
    /\ items' = MergeDescriptorItems(items, invoice)
    /\ passes' = passes + 1
    /\ UNCHANGED <<invoice, before, items_sum, discount_worded, fields_ok, stage,
                   noteVars, llmVars, pipeVars>>

\* the lists start with any indices: the positions, or the positions
\* shifted
InitItems ==
    /\ \E n \in 0..MaxItems, shift \in {0, 10} :
         \E description \in [1..n -> Descriptions], pricing \in [1..n -> Pricings] :
            items = [k \in 1..n |-> Item(k + shift, description[k], pricing[k])]
    /\ items_before = items
    /\ invoice \in ItemsHeaders
    /\ NotesIdle
    /\ before = invoice
    /\ passes = 0
    /\ items_sum = 0
    /\ discount_worded = FALSE
    /\ fields_ok = FALSE
    /\ stage = "items"
    /\ LLMIdle
    /\ MAX_CONCURRENCY = 1
    /\ semaphore = 1
    /\ req = << >>
    /\ db = << >>
    /\ saves = << >>

NextItems == MergePass

SpecItems == InitItems /\ [][NextItems]_vars

\* C14: merge_descriptor_items is idempotent: a second run over its own
\* output returns the same items with the same descriptions, totals and
\* indices.
C14_MergeIdempotent == (stage = "items" /\ passes >= 2) => items = items_before

\* C15: after merge_descriptor_items the retained items carry the indices
\* 1, 2, ..., N in list order, whatever indices the input items had.
C15_IndicesContiguous ==
    (stage = "items" /\ passes >= 1) =>
        \A k \in 1..Len(items) : items[k].idx = k

C15_Witness ==
    /\ stage = "items"
    /\ passes = 1
    /\ Len(items_before) = 3
    /\ items_before[1].idx = 11
    /\ Len(items) = 2
    /\ items[1].idx = 1
    /\ items[2].idx = 2
    /\ items[2].description = items_before[3].description

\* the item echoes a summary line of the header
SummaryEcho(item) ==
    \/ HasSummaryKeyword(item.description)
    \/ /\ item.description # << >>
       /\ item.line_total_cents \in {invoice.discount_cents, invoice.tax_cents}

\* C20: no item in the output of merge_descriptor_items has a description
\* containing a summary keyword, or a non-empty description together with a
\* line total equal to the header discount or tax, whatever its position in
\* the input list, the first included.
C20_NoSummaryEcho ==
    (stage = "items" /\ passes >= 1) =>
        \A k \in 1..Len(items) : ~SummaryEcho(items[k])

(***************************************************************************)
(* The amount stages of _parse_and_normalize, one function at a time       *)
(***************************************************************************)

\* amounts as the completion may give them: a negative one included
SignedAmounts == {-2, 0, 1, 2, 20, 2000}
StagedSums == {0, 2}

SignedHeaders ==
    [subtotal_cents : SignedAmounts \cup {None},
     tax_cents      : SignedAmounts \cup {None},
     total_cents    : SignedAmounts \cup {None},
     discount_cents : SignedAmounts \cup {None}]

\* normalize_invoice_amounts(invoice): Step 4 on the parsed header (after the
\* defensive discount of Step 3), and again after the scale fix
NormalizeStage ==
    /\ stage \in {"parsed", "harmonized"}
    /\ before' = invoice
    /\ invoice' = IF stage = "parsed"
                  THEN NormalizeInvoiceAmounts(
                           DefensiveDiscount(invoice, discount_worded))
                  ELSE NormalizeInvoiceAmounts(invoice)
    /\ stage' = IF stage = "parsed" THEN "normalized" ELSE "renormalized"
    /\ UNCHANGED <<passes, items_sum, discount_worded, fields_ok, itemVars, noteVars,
                   llmVars, pipeVars>>

\* harmonize_amount_scale(invoice, items_sum): Step 7
HarmonizeStage ==
    /\ stage = "normalized"
    /\ before' = invoice
    /\ invoice' = HarmonizeAmountScale(invoice, items_sum)
    /\ stage' = "harmonized"
    /\ UNCHANGED <<passes, items_sum, discount_worded, fields_ok, itemVars, noteVars,
                   llmVars, pipeVars>>

\* recompute_discount(invoice, discount_locked=False)
RecomputeStage ==
    /\ stage = "renormalized"
    /\ before' = invoice
    /\ invoice' = RecomputeDiscount(invoice, FALSE)
    /\ stage' = "recomputed"
    /\ UNCHANGED <<passes, items_sum, discount_worded, fields_ok, itemVars, noteVars,
                   llmVars, pipeVars>>

InitStages ==
    /\ invoice \in SignedHeaders
    /\ before = invoice
    /\ passes = 0
    /\ items_sum \in StagedSums
    /\ discount_worded \in BOOLEAN
    /\ fields_ok = TRUE
    /\ ItemsIdle
    /\ NotesIdle
    /\ stage = "parsed"
    /\ LLMIdle
    /\ MAX_CONCURRENCY = 1
    /\ semaphore = 1
    /\ req = << >>
    /\ db = << >>
    /\ saves = << >>

NextStages ==
    \/ NormalizeStage
    \/ HarmonizeStage
    \/ RecomputeStage

SpecStages == InitStages /\ [][NextStages]_vars

AfterAmountStage ==
    stage \in {"normalized", "harmonized", "renormalized", "recomputed"}

\* C16: after each of normalize_invoice_amounts, harmonize_amount_scale and
\* recompute_discount, and so in the final header, each of subtotal, tax
\* and total is absent or a non-negative integer, and discount is a
\* non-negative integer, never absent.
C16_AmountsNonNegative ==
    AfterAmountStage =>
        /\ \A f \in {"subtotal_cents", "tax_cents", "total_cents"} :
              invoice[f] = None \/ invoice[f] \in Nat
        /\ invoice.discount_cents # None
        /\ invoice.discount_cents \in Nat

C16_Witness ==
    /\ stage = "normalized"
    /\ before.tax_cents = -2
    /\ before.discount_cents = None
    /\ before.subtotal_cents = None
    /\ invoice.tax_cents = 0
    /\ invoice.discount_cents = 0
    /\ invoice.subtotal_cents = None

(***************************************************************************)
(* Further claims about normalize_invoice_amounts, under SpecNorm          *)
(***************************************************************************)

\* how many of subtotal, tax and total the header lacks
MissingCount(inv) ==
    Cardinality({f \in {"subtotal_cents", "tax_cents", "total_cents"} :
                    inv[f] = None})

\* the header after the latest pass, next to the one it was given
AfterAPass == stage = "header" /\ passes >= 1

\* C21: inference happens only when exactly one of subtotal, tax, total is
\* missing: that field is then set so that total = subtotal + tax - discount
\* holds exactly, if the value is non-negative, and stays missing otherwise;
\* when two or all three are missing, no field is inferred.
C21_InferOnlySingleMissing ==
    AfterAPass =>
        /\ MissingCount(before) >= 2 =>
              /\ invoice.subtotal_cents = before.subtotal_cents
              /\ invoice.tax_cents = before.tax_cents
              /\ invoice.total_cents = before.total_cents
        /\ MissingCount(before) = 1 =>
              \/ /\ MissingCount(invoice) = 0
                 /\ Identity(invoice) = 0
              \/ /\ MissingCount(invoice) = 1
                 /\ invoice.subtotal_cents = before.subtotal_cents
                 /\ invoice.tax_cents = before.tax_cents
                 /\ invoice.total_cents = before.total_cents

(***************************************************************************)
(* recompute_discount on a header, locked or not                           *)
(***************************************************************************)

\* recompute_discount(invoice, discount_locked) on any header
RecomputePass ==
    /\ stage = "totals"
    /\ \E discount_locked \in BOOLEAN :
         /\ invoice' = RecomputeDiscount(invoice, discount_locked)
         /\ stage' = IF discount_locked THEN "recomputed_locked" ELSE "recomputed"
    /\ before' = invoice
    /\ UNCHANGED <<passes, items_sum, discount_worded, fields_ok, itemVars, noteVars,
                   llmVars, pipeVars>>

InitRecompute ==
    /\ invoice \in Headers
    /\ before = invoice
    /\ passes = 0
    /\ items_sum = 0
    /\ discount_worded = FALSE
    /\ fields_ok = FALSE
    /\ ItemsIdle
    /\ NotesIdle
    /\ stage = "totals"
    /\ LLMIdle
    /\ MAX_CONCURRENCY = 1
    /\ semaphore = 1
    /\ req = << >>
    /\ db = << >>
    /\ saves = << >>

NextRecompute == RecomputePass

SpecRecompute == InitRecompute /\ [][NextRecompute]_vars

\* subtotal + tax - total of the header given, an absent tax counting 0
Surplus(inv) == inv.subtotal_cents + OrZero(inv.tax_cents) - inv.total_cents

\* t = max(1, 0.1% of total), as a bound on an integer
PerMille(total) ==
    IF total >= 2000 THEN total \div 1000 ELSE 1

\* C22: recompute_discount, with t = max(1, 0.1% of total), leaves the
\* discount unchanged when it is locked, when subtotal or total is missing,
\* when subtotal + tax - total < -t, or when the recomputed value differs
\* from the current discount by at most t; in every other case it sets the
\* discount to max(0, subtotal + tax - total).  No other field is modified.
C22_RecomputeCases ==
    stage \in {"recomputed", "recomputed_locked"} =>
        /\ invoice.subtotal_cents = before.subtotal_cents
        /\ invoice.tax_cents = before.tax_cents
        /\ invoice.total_cents = before.total_cents
        /\ IF \/ stage = "recomputed_locked"
              \/ before.subtotal_cents = None
              \/ before.total_cents = None
           THEN invoice.discount_cents = before.discount_cents
           ELSE LET t == PerMille(before.total_cents)
                    recomputed == Max(0, Surplus(before))
                IN  IF \/ Surplus(before) < -t
                       \/ Abs(recomputed - OrZero(before.discount_cents)) <= t
                    THEN invoice.discount_cents = before.discount_cents
                    ELSE invoice.discount_cents = recomputed

C22_Witness ==
    /\ stage = "recomputed"
    /\ before.total_cents = 2000
    /\ before.subtotal_cents = 1998
    /\ before.tax_cents = None
    /\ before.discount_cents = 5
    /\ invoice.discount_cents = 0

(***************************************************************************)
(* Further claims about harmonize_amount_scale, under SpecScale            *)
(***************************************************************************)

\* the factor the scaled header was divided by: the first field, in the
\* order total, subtotal, tax, discount, near a candidate decides
AppliedFactor ==
    LET order == <<before.total_cents, before.subtotal_cents,
                   before.tax_cents, before.discount_cents>>
        deciding == {i \in 1..4 : NearSomeFactor(order[i])}
    IN  IF items_sum <= 0 \/ deciding = {} THEN 1
        ELSE LET first == CHOOSE i \in deciding : \A j \in deciding : i <= j
             IN  IF WithinOf(order[first], 1000) THEN 1000
                 ELSE IF WithinOf(order[first], 100) THEN 100
                 ELSE 10

\* C23: when harmonize_amount_scale applies a factor f in {1000, 100, 10},
\* each non-null field among subtotal, tax, total, discount becomes the floor
\* of its value divided by f (1500 with f = 1000 becomes 1).
C23_ScaledByFloor ==
    (stage = "scaled" /\ AppliedFactor # 1) =>
        \A f \in AmountFields :
            IF before[f] = None THEN invoice[f] = None
            ELSE invoice[f] = before[f] \div AppliedFactor

(***************************************************************************)
(* filter_false_positive_warnings (pipeline/service/item_processor.py)     *)
(***************************************************************************)

\* bound of the model: warnings in the notes
MaxWarnings == 2

\* warnings a completion may give: two that name a total mismatch (each
\* holds one of the phrases of the filter once lowered) and one that does not
Warnings ==
    {"Total and subtotal disagree",
     "Line item sum does not match invoice total",
     "Low OCR confidence"}

\* any(phrase in warning.lower() for phrase in phrases)
NamesTotalMismatch(warning) ==
    warning \in {"Total and subtotal disagree",
                 "Line item sum does not match invoice total"}

WarnedHeaders ==
    [subtotal_cents : {None, 2, 2000},
     tax_cents      : {None, 0, 1},
     total_cents    : {None, 2, 3, 2002, 2005},
     discount_cents : {None, 0, 1}]

\* totals_are_consistent(invoice)
TotalsAreConsistent(inv) ==
    IF \/ inv.subtotal_cents = None
       \/ inv.tax_cents = None
       \/ inv.total_cents = None
    THEN TRUE
    ELSE LET tolerance == Max(1, inv.total_cents \div 1000)
             discount == OrZero(inv.discount_cents)
             expected_total == inv.subtotal_cents + inv.tax_cents - discount
         IN  Abs(expected_total - inv.total_cents) <= tolerance

\* filter_false_positive_warnings(warnings, invoice)
FilterFalsePositiveWarnings(list, inv) ==
    IF list = << >> THEN list
    ELSE IF TotalsAreConsistent(inv)
    THEN LET Kept(warning) == ~NamesTotalMismatch(warning)
         IN  SelectSeq(list, Kept)
    ELSE list

FilterWarnings ==
    /\ stage = "notes"
    /\ warnings_before' = warnings
    /\ warnings' = FilterFalsePositiveWarnings(warnings, invoice)
    /\ stage' = "filtered"
    /\ UNCHANGED <<invoice, before, passes, items_sum, discount_worded, fields_ok,
                   itemVars, llmVars, pipeVars>>

InitWarnings ==
    /\ invoice \in WarnedHeaders
    /\ before = invoice
    /\ warnings \in UNION {[1..n -> Warnings] : n \in 0..MaxWarnings}
    /\ warnings_before = warnings
    /\ passes = 0
    /\ items_sum = 0
    /\ discount_worded = FALSE
    /\ fields_ok = FALSE
    /\ ItemsIdle
    /\ stage = "notes"
    /\ LLMIdle
    /\ MAX_CONCURRENCY = 1
    /\ semaphore = 1
    /\ req = << >>
    /\ db = << >>
    /\ saves = << >>

NextWarnings == FilterWarnings

SpecWarnings == InitWarnings /\ [][NextWarnings]_vars

\* subtotal, tax and total are present and the identity holds within
\* max(1, 0.1% of total)
IdentityWithinTolerance(inv) ==
    /\ AllPresent(inv.subtotal_cents, inv.tax_cents, inv.total_cents)
    /\ Abs(inv.subtotal_cents + inv.tax_cents - OrZero(inv.discount_cents)
              - inv.total_cents) <= PerMille(inv.total_cents)

\* C24: filter_false_positive_warnings removes a total/subtotal-mismatch
\* warning if and only if subtotal, tax and total are all present and
\* |subtotal + tax - discount - total| <= max(1, 0.1% of total); when the
\* identity fails or cannot be evaluated the warning is kept, and the other
\* warnings are always kept, in their order.
C24_SuppressedIffIdentityHolds ==
    stage = "filtered" =>
        LET Kept(warning) ==
                ~(NamesTotalMismatch(warning) /\ IdentityWithinTolerance(invoice))
        IN  warnings = SelectSeq(warnings_before, Kept)

(***************************************************************************)
(* Further claims about _parse_and_normalize, under SpecParse              *)
(***************************************************************************)

\* C25: if the document text names no discount (no keyword, no summary
\* label), the discount of the payload returned by _parse_and_normalize is
\* 0: no later stage brings a non-zero discount back.
C25_NoDiscountWithoutWording ==
    (stage = "accepted" /\ ~discount_worded) => invoice.discount_cents = 0

(***************************************************************************)
(* Termination and request budget of call_llm, checked under SpecLLMLive   *)
(***************************************************************************)

\* requests.post calls made so far on behalf of the top-level call
TotalSent ==
    stack[1].sent + stack[1].nested_sent
        + (IF Len(stack) = 2 THEN stack[2].sent ELSE 0)

RequestBudget ==
    /\ Len(stack) <= 2
    /\ stack[1].sent <= 4
    /\ Len(stack) = 2 => (~stack[2].allow_repair /\ stack[2].sent <= 4
                            /\ stack[2].repairs = 0)
    /\ TotalSent <= 4 + 4 * 4

CallEnded == Len(stack) = 1 /\ ~Running(stack[1])

\* C26: every call_llm ends (given that waits and sleeps return); the
\* top-level loop sends at most 4 requests, a repair sub-call runs with
\* repair disabled so calls nest at most one deep, and one top-level call
\* causes at most 4 + 4*4 = 20 requests in all.
C26_EndsWithinBudget == []RequestBudget /\ <>CallEnded

C26_Witness ==
    /\ CallEnded
    /\ stack[1].sent = 4
    /\ stack[1].repairs >= 1
    /\ stack[1].nested_sent >= 4

(***************************************************************************)
(* save_document calls of run_pipeline, checked under SpecPipe             *)
(***************************************************************************)

OwnPayload(r) == req[r].result # NoPayload /\ req[r].result.run = r

SavedRuns(h) == {r \in Requests : req[r].file_hash = h /\ req[r].save_calls = 1}

\* C27: a run of run_pipeline calls save_document at most once, and only
\* after its completion call, the parse and the validation succeeded; a run
\* answered from the cache and a run that failed saved nothing.
C27_SavesOnlyOnSuccess ==
    /\ \A r \in Requests :
         /\ req[r].save_calls <= 1
         /\ req[r].save_calls = 1 =>
                /\ req[r].pc = "done"
                /\ req[r].llm_calls = 1
                /\ req[r].response_text = "json"
                /\ req[r].error = "none"
                /\ OwnPayload(r)
         /\ req[r].pc \in {"failed", "rejected"} => req[r].save_calls = 0
         /\ (req[r].pc = "done" /\ ~OwnPayload(r)) => req[r].save_calls = 0
    /\ \A h \in DOMAIN saves : saves[h] = Cardinality(SavedRuns(h))

C27_Witness ==
    \E r1, r2 \in Requests :
        /\ req[r1].pc = "done" /\ req[r1].save_calls = 1
        /\ req[r2].pc = "done" /\ ~OwnPayload(r2) /\ req[r2].save_calls = 0

(***************************************************************************)
(* Patterns 1-4 of normalize_invoice_amounts, checked under SpecNorm       *)
(***************************************************************************)

ThreeFieldsChanged ==
    \/ invoice.subtotal_cents # before.subtotal_cents
    \/ invoice.tax_cents # before.tax_cents
    \/ invoice.total_cents # before.total_cents

PatternApplied ==
    /\ AfterAPass
    /\ AllPresent(before.subtotal_cents, before.tax_cents, before.total_cents)
    /\ ThreeFieldsChanged

\* the footprint of one pattern: pattern 1 moves the old tax into subtotal
\* and rewrites tax, patterns 2 and 3 rewrite tax alone, pattern 4 moves the
\* old tax into total and rewrites tax
OnePatternFootprint ==
    \/ /\ invoice.total_cents = before.total_cents
       /\ invoice.subtotal_cents = before.tax_cents
    \/ /\ invoice.total_cents = before.total_cents
       /\ invoice.subtotal_cents = before.subtotal_cents
    \/ /\ invoice.subtotal_cents = before.subtotal_cents
       /\ invoice.total_cents = before.tax_cents

\* C28: whenever one pass of normalize_invoice_amounts changes subtotal, tax
\* or total of a header that had all three, the result satisfies
\* total = subtotal + tax - discount exactly, and the change is that of one
\* pattern only.
C28_PatternRestoresIdentity ==
    PatternApplied =>
        /\ Identity(invoice) = 0
        /\ OnePatternFootprint

\* pattern 4 applied with a discount
C28_Witness ==
    /\ PatternApplied
    /\ passes = 1
    /\ before.discount_cents > 0
    /\ before.subtotal_cents = before.total_cents
    /\ invoice.total_cents = before.tax_cents
    /\ invoice.total_cents # before.total_cents

ConsistentHeader(inv) ==
    /\ AllPresent(inv.subtotal_cents, inv.tax_cents, inv.total_cents)
    /\ inv.discount_cents # None
    /\ inv.subtotal_cents >= 0 /\ inv.tax_cents >= 0
    /\ inv.total_cents >= 0 /\ inv.discount_cents >= 0
    /\ Identity(inv) = 0

\* C29: a header that has subtotal, tax, total and discount, all
\* non-negative, with total = subtotal + tax - discount exactly, is returned
\* unchanged by normalize_invoice_amounts.
C29_ConsistentHeaderUnchanged ==
    (AfterAPass /\ ConsistentHeader(before)) => invoice = before

(***************************************************************************)
(* Shape of the list merge_descriptor_items returns, checked under         *)
(* SpecItems                                                               *)
(***************************************************************************)

IsPrefix(short, long) ==
    /\ Len(short) <= Len(long)
    /\ \A k \in 1..Len(short) : short[k] = long[k]

\* a retained item is the input item, its description possibly extended by
\* the descriptors merged into it (and its idx rewritten)
RetainedFrom(kept, item) ==
    /\ kept.qty = item.qty
    /\ kept.unit_price_cents = item.unit_price_cents
    /\ kept.line_total_cents = item.line_total_cents
    /\ IsPrefix(item.description, kept.description)

\* the retained items come from input positions that increase, the first
\* from position 1
OrderPreserved ==
    \E origin \in [1..Len(items) -> 1..Len(items_before)] :
        /\ origin[1] = 1
        /\ \A k \in 1..Len(items) : RetainedFrom(items[k], items_before[origin[k]])
        /\ \A k \in 1..(Len(items) - 1) : origin[k] < origin[k + 1]

====
